---- MODULE Spec2Model ----
(***************************************************************************)
(* Sleep-apnea economic impact model: the Savings Projector (app.py) and   *)
(* the Comorbidity Sampler (comorbidity_monte_carlo_sim.py).               *)
(*                                                                         *)
(* Numbers.  Python floats are modelled by exact rationals <<n, d>> in     *)
(* lowest terms with d > 0.  A discounted amount is a sum of terms         *)
(* c / (1 + rate)^e and is kept as a function from the exponents e with a  *)
(* non-zero coefficient to that coefficient; (1 + 0)^e = 1, so with        *)
(* rate = 0 every term has exponent 0.                                     *)
(***************************************************************************)
EXTENDS Integers, Sequences, FiniteSets, TLC

VARIABLES
  \* ---- app.py ----
  pc,                      \* position of the script run
  population_size, osa_prevalence, current_diagnosis_rate,
  target_diagnosis_rate, treatment_adherence,
  cost_diagnosis, cost_treatment, discount_rate,
  data_source, uploaded_file,
  comorbidity_prevalence, joint_prevalence,
  untreated_osa, improved_treated_osa,
  year, total_savings, annual_data, results_df,
  \* ---- comorbidity_monte_carlo_sim.py ----
  s_pc, n_patients, probs, clusters, output

appVars == <<pc, population_size, osa_prevalence, current_diagnosis_rate,
             target_diagnosis_rate, treatment_adherence,
             cost_diagnosis, cost_treatment, discount_rate,
             data_source, uploaded_file,
             comorbidity_prevalence, joint_prevalence,
             untreated_osa, improved_treated_osa,
             year, total_savings, annual_data, results_df>>

simVars == <<s_pc, n_patients, probs, clusters, output>>

vars == <<appVars, simVars>>

-----------------------------------------------------------------------------
(* Exact rational arithmetic standing for Python float arithmetic.         *)

Abs(n) == IF n < 0 THEN -n ELSE n

RECURSIVE GCD(_, _)
GCD(a, b) == IF b = 0 THEN a ELSE GCD(b, a % b)

Norm(n, d) ==
  LET g == GCD(Abs(n), d) IN <<n \div g, d \div g>>

Zero == <<0, 1>>

One == <<1, 1>>

FromInt(n) == <<n, 1>>

\* slider(...) / 100
FromPct(p) == Norm(p, 100)

RMul(x, y) ==
  IF x[1] = 0 \/ y[1] = 0 THEN Zero
  ELSE LET g1 == GCD(Abs(x[1]), y[2])
           g2 == GCD(Abs(y[1]), x[2])
       IN  <<(x[1] \div g1) * (y[1] \div g2), (x[2] \div g2) * (y[2] \div g1)>>

RAdd(x, y) ==
  LET g == GCD(x[2], y[2])
      l == (x[2] \div g) * y[2]
  IN  Norm(x[1] * (l \div x[2]) + y[1] * (l \div y[2]), l)

RNeg(x) == <<-x[1], x[2]>>

RSub(x, y) == RAdd(x, RNeg(y))

RLess(x, y) == x[1] * y[2] < y[1] * x[2]

RLeq(x, y) == x[1] * y[2] <= y[1] * x[2]

RECURSIVE RSum(_)
RSum(s) == IF s = <<>> THEN Zero ELSE RAdd(s[1], RSum(Tail(s)))

-----------------------------------------------------------------------------
(* Discounted amounts: sums of terms  coefficient / (1 + rate)^exponent.   *)

NoMoney == [e \in {} |-> Zero]

Coef(m, e) == IF e \in DOMAIN m THEN m[e] ELSE Zero

MAdd(m1, m2) ==
  LET D == DOMAIN m1 \cup DOMAIN m2
      s(e) == RAdd(Coef(m1, e), Coef(m2, e))
  IN  [e \in {x \in D : s(x) # Zero} |-> s(e)]

MNeg(m) == [e \in DOMAIN m |-> RNeg(m[e])]

MSub(m1, m2) == MAdd(m1, MNeg(m2))

\* no term is negative, which makes the amount >= 0 because (1 + rate)^e > 0
MNonNeg(m) == \A e \in DOMAIN m : m[e][1] >= 0

\* every term < 0 (and there is one), which makes the amount < 0
MNegative(m) == DOMAIN m # {} /\ \A e \in DOMAIN m : m[e][1] < 0

\* m1 <= m2 for two amounts discounted over the same number of years
MLeq(m1, m2) == MNonNeg(MSub(m2, m1))

\* def discounted_value(value, year, rate=discount_rate):
\*     return value / ((1 + rate) ** year)
discounted_value(value, yr, rate) ==
  IF value = Zero THEN NoMoney
  ELSE [e \in {IF rate = Zero THEN 0 ELSE yr} |-> value]

-----------------------------------------------------------------------------
(* Strings as character sequences, for the `in` tests on the joint labels. *)

Chars(s) ==
  CASE s = "Hypertension + Diabetes" -> <<"H","y","p","e","r","t","e","n","s","i","o","n"," ","+"," ","D","i","a","b","e","t","e","s">>
    [] s = "Hypertension + Cardio" -> <<"H","y","p","e","r","t","e","n","s","i","o","n"," ","+"," ","C","a","r","d","i","o">>
    [] s = "Diabetes + Cardio" -> <<"D","i","a","b","e","t","e","s"," ","+"," ","C","a","r","d","i","o">>
    [] s = "All Three" -> <<"A","l","l"," ","T","h","r","e","e">>
    [] s = "Hypertension" -> <<"H","y","p","e","r","t","e","n","s","i","o","n">>
    [] s = "Diabetes" -> <<"D","i","a","b","e","t","e","s">>
    [] s = "Cardio" -> <<"C","a","r","d","i","o">>
    [] s = "hypertension_diabetes_cardio" -> <<"h","y","p","e","r","t","e","n","s","i","o","n","_","d","i","a","b","e","t","e","s","_","c","a","r","d","i","o">>
    [] s = "hypertension_diabetes" -> <<"h","y","p","e","r","t","e","n","s","i","o","n","_","d","i","a","b","e","t","e","s">>
    [] s = "hypertension_cardio" -> <<"h","y","p","e","r","t","e","n","s","i","o","n","_","c","a","r","d","i","o">>
    [] s = "diabetes_cardio" -> <<"d","i","a","b","e","t","e","s","_","c","a","r","d","i","o">>
    [] s = "hypertension" -> <<"h","y","p","e","r","t","e","n","s","i","o","n">>
    [] s = "diabetes" -> <<"d","i","a","b","e","t","e","s">>
    [] s = "cardio" -> <<"c","a","r","d","i","o">>
    [] s = "none" -> <<"n","o","n","e">>
    [] s = "_" -> <<"_">>
    [] s = "abcdefghijklmnopqrstuvwxyz" -> <<"a","b","c","d","e","f","g","h","i","j","k","l","m","n","o","p","q","r","s","t","u","v","w","x","y","z">>

\* Python's  sub in s
Contains(s, sub) ==
  \E i \in 1..(Len(s) - Len(sub) + 1) : SubSeq(s, i, i + Len(sub) - 1) = sub

-----------------------------------------------------------------------------
(* Python values held in the prevalence dictionaries: a number, or a JSON  *)
(* string or null that json.load passed through.                           *)

Num(r) == [kind |-> "num", val |-> r]

Str == [kind |-> "str", val |-> Zero]

Null == [kind |-> "null", val |-> Zero]

IsNumber(v) == v.kind = "num"

\* dict.get(key, default)
DictGet(d, k, default) == IF k \in DOMAIN d THEN d[k] ELSE default

Undefined == [k \in {} |-> Null]

Defined(d) == DOMAIN d # {}

-----------------------------------------------------------------------------
(* app.py: tables                                                          *)

NumYears == 20

years == 1..NumYears

Conditions == <<"Hypertension", "Diabetes", "Cardiovascular Event", "Depression">>

JointKeys == <<"Hypertension + Diabetes", "Hypertension + Cardio",
               "Diabetes + Cardio", "All Three">>

comorbidity_costs ==
  [c \in {"Hypertension", "Diabetes", "Cardiovascular Event", "Depression"} |->
     CASE c = "Hypertension" -> 2000
       [] c = "Diabetes" -> 12000
       [] c = "Cardiovascular Event" -> 30000
       [] c = "Depression" -> 5000]

risk_reduction ==
  [c \in {"Hypertension", "Diabetes", "Cardiovascular Event", "Depression"} |->
     CASE c = "Hypertension" -> FromPct(40)
       [] c = "Diabetes" -> FromPct(25)
       [] c = "Cardiovascular Event" -> FromPct(50)
       [] c = "Depression" -> FromPct(30)]

\* np.mean(list(risk_reduction.values()))
mean_risk_reduction ==
  RMul(RSum([i \in 1..Len(Conditions) |-> risk_reduction[Conditions[i]]]),
       <<1, Len(Conditions)>>)

-----------------------------------------------------------------------------
(* app.py: calculate_savings, as functions of its inputs                   *)

\* population_size * osa_prevalence * (1 - current_diagnosis_rate)
UntreatedOsa(pop, prev, cur) ==
  RMul(RMul(FromInt(pop), prev), RSub(One, cur))

\* variants of improved_treated_osa: the baseline rate not subtracted, the
\* non-adherent share taken, the two rates exchanged
ImprovedTreatedOsa_noBaseline(pop, prev, cur, tgt, adh) ==
  RMul(RMul(RMul(FromInt(pop), prev), tgt), adh)

ImprovedTreatedOsa_nonAdherent(pop, prev, cur, tgt, adh) ==
  RMul(RMul(RMul(FromInt(pop), prev), RSub(tgt, cur)), RSub(One, adh))

ImprovedTreatedOsa_exchanged(pop, prev, cur, tgt, adh) ==
  RMul(RMul(RMul(FromInt(pop), prev), RSub(cur, tgt)), adh)

\* population_size * osa_prevalence * (target - current) * treatment_adherence
ImprovedTreatedOsa(pop, prev, cur, tgt, adh) ==
  RMul(RMul(RMul(FromInt(pop), prev), RSub(tgt, cur)), adh)

\* variant of the pass below: reduced_cases not multiplied by the cost
condition_savings_noCost(cond, cp, improved, yr, rate) ==
  LET prevalence == DictGet(cp, cond, Num(Zero)).val
      reduced_cases == RMul(RMul(improved, prevalence), risk_reduction[cond])
  IN  discounted_value(reduced_cases, yr, rate)

\* one pass of  for condition in comorbidity_costs
condition_savings(cond, cp, improved, yr, rate) ==
  LET prevalence == DictGet(cp, cond, Num(Zero)).val
      reduced_cases == RMul(RMul(improved, prevalence), risk_reduction[cond])
      cost_avoided == RMul(reduced_cases, FromInt(comorbidity_costs[cond]))
  IN  discounted_value(cost_avoided, yr, rate)

\* variant of cost_estimate: "All Three" read as the three conditions
cost_estimate_allThree(joint_key) ==
  IF joint_key = "All Three"
  THEN comorbidity_costs["Hypertension"] + comorbidity_costs["Diabetes"]
       + comorbidity_costs["Cardiovascular Event"]
  ELSE   (IF Contains(Chars(joint_key), Chars("Hypertension"))
            THEN comorbidity_costs["Hypertension"] ELSE 0)
       + (IF Contains(Chars(joint_key), Chars("Diabetes"))
            THEN comorbidity_costs["Diabetes"] ELSE 0)
       + (IF Contains(Chars(joint_key), Chars("Cardio"))
            THEN comorbidity_costs["Cardiovascular Event"] ELSE 0)

cost_estimate(joint_key) ==
    (IF Contains(Chars(joint_key), Chars("Hypertension"))
       THEN comorbidity_costs["Hypertension"] ELSE 0)
  + (IF Contains(Chars(joint_key), Chars("Diabetes"))
       THEN comorbidity_costs["Diabetes"] ELSE 0)
  + (IF Contains(Chars(joint_key), Chars("Cardio"))
       THEN comorbidity_costs["Cardiovascular Event"] ELSE 0)

\* one pass of  for joint_key, joint_val in joint_prevalence.items()
joint_savings(joint_key, jp, improved, yr, rate) ==
  LET joint_val == jp[joint_key].val
      cost_avoided == RMul(RMul(RMul(improved, joint_val),
                                FromInt(cost_estimate(joint_key))),
                           mean_risk_reduction)
  IN  discounted_value(cost_avoided, yr, rate)

RECURSIVE MSum(_)
MSum(s) == IF s = <<>> THEN NoMoney ELSE MAdd(s[1], MSum(Tail(s)))

\* yearly_savings at the end of the two inner loops
yearly_savings(cp, jp, improved, yr, rate) ==
  MAdd(MSum([i \in 1..Len(Conditions) |->
               condition_savings(Conditions[i], cp, improved, yr, rate)]),
       MSum([i \in 1..Len(JointKeys) |->
               joint_savings(JointKeys[i], jp, improved, yr, rate)]))

\* variant of treatment_cost: the diagnosis cost charged every year
treatment_cost_everyYear(improved, yr, ct, cd) ==
  RMul(improved, FromInt(ct + cd))

\* improved_treated_osa * (cost_treatment + cost_diagnosis if year == 1 else cost_treatment)
treatment_cost(improved, yr, ct, cd) ==
  RMul(improved, FromInt(IF yr = 1 THEN ct + cd ELSE ct))

net_savings(cp, jp, improved, yr, ct, cd, rate) ==
  MSub(yearly_savings(cp, jp, improved, yr, rate),
       discounted_value(treatment_cost(improved, yr, ct, cd), yr, rate))

\* the dictionary appended to annual_data
AnnualRecord(cp, jp, improved, yr, ct, cd, rate) ==
  [Year |-> yr,
   CostAvoided |-> yearly_savings(cp, jp, improved, yr, rate),
   TreatmentCost |-> discounted_value(treatment_cost(improved, yr, ct, cd), yr, rate),
   NetSavings |-> net_savings(cp, jp, improved, yr, ct, cd, rate)]

\* variant of the accumulation: the year's cost avoided added instead
accumulate_costAvoided(total, rec) == MAdd(total, rec.CostAvoided)

\* total_savings += net_savings
accumulate(total, rec) == MAdd(total, rec.NetSavings)

\* float * str and float * None raise TypeError
RaisesTypeError(cp, jp) ==
  \/ \E i \in 1..Len(Conditions) : ~IsNumber(DictGet(cp, Conditions[i], Num(Zero)))
  \/ \E k \in DOMAIN jp : ~IsNumber(jp[k])

-----------------------------------------------------------------------------
(* app.py: the values the sidebar widgets and the uploader can deliver     *)

PopulationSizes == {10000, 100000}

OsaPrevalencePcts == {25}

DiagnosisRatePcts == {20, 50}

AdherencePcts == {0, 60, 100}

DiagnosisCosts == {1000}

TreatmentCosts == {1500}

DiscountRatePcts == {0, 3}

PrevalencePcts == {<<0, 0, 0, 0>>, <<30, 0, 0, 0>>, <<30, 15, 10, 25>>}

JointPcts == {<<0, 0, 0, 0>>, <<12, 8, 5, 3>>, <<12, 8, 5, 40>>}

AllThreePcts == {0, 3, 40, 100}

NoFile == [kind |-> "none", jpkind |-> "missing", jp |-> Undefined]

JsonObject(jp) == [kind |-> "object", jpkind |-> "object", jp |-> jp]

Artifacts ==
  { JsonObject(  "hypertension" :> Num(FromPct(20)) @@ "diabetes" :> Num(FromPct(10))
              @@ "cardio" :> Num(FromPct(5)) @@ "none" :> Num(FromPct(37))
              @@ "hypertension_diabetes" :> Num(FromPct(12))
              @@ "hypertension_cardio" :> Num(FromPct(8))
              @@ "diabetes_cardio" :> Num(FromPct(5))
              @@ "hypertension_diabetes_cardio" :> Num(FromPct(3))),
    JsonObject("hypertension" :> Num(FromPct(30)) @@ "none" :> Num(FromPct(70))),
    JsonObject(Undefined),
    [kind |-> "object", jpkind |-> "missing", jp |-> Undefined],
    JsonObject("hypertension" :> Str @@ "diabetes" :> Num(FromPct(10))),
    JsonObject("hypertension" :> Num(FromPct(20)) @@ "hypertension_diabetes_cardio" :> Null),
    JsonObject("hypertension" :> Num(FromPct(-10)) @@ "diabetes_cardio" :> Num(FromPct(5))),
    [kind |-> "object", jpkind |-> "null", jp |-> Undefined],
    [kind |-> "array", jpkind |-> "missing", jp |-> Undefined],
    [kind |-> "invalid", jpkind |-> "missing", jp |-> Undefined] }

-----------------------------------------------------------------------------
(* app.py: the script run                                                  *)

AppStart ==
  /\ pc = "source"
  /\ population_size \in PopulationSizes
  /\ osa_prevalence \in {FromPct(p) : p \in OsaPrevalencePcts}
  /\ current_diagnosis_rate \in {FromPct(p) : p \in DiagnosisRatePcts}
  /\ target_diagnosis_rate \in {FromPct(p) : p \in DiagnosisRatePcts}
  /\ treatment_adherence \in {FromPct(p) : p \in AdherencePcts}
  /\ cost_diagnosis \in DiagnosisCosts
  /\ cost_treatment \in TreatmentCosts
  /\ discount_rate \in {FromPct(p) : p \in DiscountRatePcts}
  /\ data_source \in {"Manual Entry", "Load Monte Carlo JSON"}
  /\ uploaded_file \in
       IF data_source = "Manual Entry" THEN {NoFile} ELSE {NoFile} \cup Artifacts
  /\ comorbidity_prevalence = Undefined
  /\ joint_prevalence = Undefined
  /\ untreated_osa = Zero
  /\ improved_treated_osa = Zero
  /\ year = 0
  /\ total_savings = NoMoney
  /\ annual_data = <<>>
  /\ results_df = <<>>

\* the four sliders of each group, read into the two dictionaries
ManualProfile(p) ==
     "Hypertension" :> Num(FromPct(p[1])) @@ "Diabetes" :> Num(FromPct(p[2]))
  @@ "Cardiovascular Event" :> Num(FromPct(p[3])) @@ "Depression" :> Num(FromPct(p[4]))

ManualJoint(p) ==
     "Hypertension + Diabetes" :> Num(FromPct(p[1]))
  @@ "Hypertension + Cardio" :> Num(FromPct(p[2]))
  @@ "Diabetes + Cardio" :> Num(FromPct(p[3]))
  @@ "All Three" :> Num(FromPct(p[4]))

\* the two dictionaries built from prevalence_raw
JsonProfile(prevalence_raw) ==
     "Hypertension" :> DictGet(prevalence_raw, "hypertension", Num(Zero))
  @@ "Diabetes" :> DictGet(prevalence_raw, "diabetes", Num(Zero))
  @@ "Cardiovascular Event" :> DictGet(prevalence_raw, "cardio", Num(Zero))
  @@ "Depression" :> Num(FromPct(25))

JsonJoint(prevalence_raw) ==
     "Hypertension + Diabetes" :> DictGet(prevalence_raw, "hypertension_diabetes", Num(Zero))
  @@ "Hypertension + Cardio" :> DictGet(prevalence_raw, "hypertension_cardio", Num(Zero))
  @@ "Diabetes + Cardio" :> DictGet(prevalence_raw, "diabetes_cardio", Num(Zero))
  @@ "All Three" :> DictGet(prevalence_raw, "hypertension_diabetes_cardio", Num(Zero))

calcVars == <<untreated_osa, improved_treated_osa, year, total_savings,
              annual_data, results_df>>

inputVars == <<population_size, osa_prevalence, current_diagnosis_rate,
               target_diagnosis_rate, treatment_adherence,
               cost_diagnosis, cost_treatment, discount_rate,
               data_source, uploaded_file>>

\* if data_source == "Manual Entry":
ManualEntry ==
  /\ pc = "source"
  /\ data_source = "Manual Entry"
  /\ \E p \in PrevalencePcts, j \in JointPcts :
       /\ comorbidity_prevalence' = ManualProfile(p)
       /\ joint_prevalence' = ManualJoint(j)
  /\ pc' = "ready"
  /\ UNCHANGED <<inputVars, calcVars, simVars>>

\* else: ... if uploaded_file:
LoadMonteCarloJSON ==
  /\ pc = "source"
  /\ data_source = "Load Monte Carlo JSON"
  /\ uploaded_file.kind # "none"
  /\ IF /\ uploaded_file.kind = "object"
        /\ uploaded_file.jpkind \in {"object", "missing"}
     THEN \* mc_data.get('joint_prevalence', {})
          LET prevalence_raw == uploaded_file.jp
          IN  /\ comorbidity_prevalence' = JsonProfile(prevalence_raw)
              /\ joint_prevalence' = JsonJoint(prevalence_raw)
              /\ pc' = "ready"
     ELSE \* json.load or one of the .get calls raises
          /\ pc' = "crashed"
          /\ UNCHANGED <<comorbidity_prevalence, joint_prevalence>>
  /\ UNCHANGED <<inputVars, calcVars, simVars>>

\* variant of the branch below: the warning is shown and the script goes on
StopWithoutUpload_noStop ==
  /\ pc = "source"
  /\ data_source = "Load Monte Carlo JSON"
  /\ uploaded_file.kind = "none"
  /\ pc' = "ready"
  /\ UNCHANGED <<inputVars, comorbidity_prevalence, joint_prevalence, calcVars, simVars>>

\* else: st.warning(...); st.stop()
StopWithoutUpload ==
  /\ pc = "source"
  /\ data_source = "Load Monte Carlo JSON"
  /\ uploaded_file.kind = "none"
  /\ pc' = "stopped"
  /\ UNCHANGED <<inputVars, comorbidity_prevalence, joint_prevalence, calcVars, simVars>>

\* calculate_savings(), up to the for loop
BeginCalculateSavings ==
  /\ pc = "ready"
  /\ untreated_osa' = UntreatedOsa(population_size, osa_prevalence,
                                   current_diagnosis_rate)
  /\ improved_treated_osa' =
       ImprovedTreatedOsa(population_size, osa_prevalence, current_diagnosis_rate,
                          target_diagnosis_rate, treatment_adherence)
  /\ total_savings' = NoMoney
  /\ annual_data' = <<>>
  /\ year' = 1
  /\ pc' = "loop"
  /\ UNCHANGED <<inputVars, comorbidity_prevalence, joint_prevalence, results_df, simVars>>

\* one iteration of  for year in years
YearIteration ==
  /\ pc = "loop"
  /\ year \in years
  /\ IF RaisesTypeError(comorbidity_prevalence, joint_prevalence)
     THEN /\ pc' = "crashed"
          /\ UNCHANGED <<year, total_savings, annual_data>>
     ELSE LET rec == AnnualRecord(comorbidity_prevalence, joint_prevalence,
                                  improved_treated_osa, year,
                                  cost_treatment, cost_diagnosis, discount_rate)
          IN  /\ total_savings' = accumulate(total_savings, rec)
              /\ annual_data' = Append(annual_data, rec)
              /\ year' = year + 1
              /\ pc' = "loop"
  /\ UNCHANGED <<inputVars, comorbidity_prevalence, joint_prevalence,
                 untreated_osa, improved_treated_osa, results_df, simVars>>

\* df = pd.DataFrame(annual_data); return total_savings, df
ReturnResults ==
  /\ pc = "loop"
  /\ year \notin years
  /\ results_df' = annual_data
  /\ pc' = "done"
  /\ UNCHANGED <<inputVars, comorbidity_prevalence, joint_prevalence,
                 untreated_osa, improved_treated_osa, year, total_savings,
                 annual_data, simVars>>

-----------------------------------------------------------------------------
(* comorbidity_monte_carlo_sim.py                                          *)

MaxPatients == 3

\* values np.random.rand() can return, in hundredths
RandPcts == {0, 4, 20, 25, 99}

\* <<p_hyp, p_dia, p_car, p_hyp_dia, p_hyp_car, p_dia_car, p_all_three>>, in hundredths
ProbPcts == {<<0, 0, 0, 0, 0, 0, 0>>, <<30, 15, 10, 12, 8, 5, 3>>}

costs ==
  [k \in {Chars("hypertension"), Chars("diabetes"), Chars("cardio")} |->
     CASE k = Chars("hypertension") -> 2000
       [] k = Chars("diabetes") -> 12000
       [] k = Chars("cardio") -> 30000]

\* position of a lower-case letter in the alphabet
Ord(c) == CHOOSE i \in 1..Len(Chars("abcdefghijklmnopqrstuvwxyz")) :
            Chars("abcdefghijklmnopqrstuvwxyz")[i] = c

\* s < t on Python strings of lower-case letters
RECURSIVE StrLess(_, _)
StrLess(s, t) ==
  IF t = <<>> THEN FALSE
  ELSE IF s = <<>> THEN TRUE
  ELSE IF s[1] = t[1] THEN StrLess(Tail(s), Tail(t))
  ELSE Ord(s[1]) < Ord(t[1])

\* sorted(flags)
RECURSIVE sorted(_)
sorted(flags) ==
  IF flags = <<>> THEN <<>>
  ELSE LET least == CHOOSE i \in 1..Len(flags) :
                      \A j \in 1..Len(flags) : ~StrLess(flags[j], flags[i])
       IN  <<flags[least]>> \o
           sorted([k \in 1..(Len(flags) - 1) |->
                     IF k < least THEN flags[k] ELSE flags[k + 1]])

\* sep.join(parts)
RECURSIVE join(_, _)
join(sep, parts) ==
  IF parts = <<>> THEN <<>>
  ELSE IF Len(parts) = 1 THEN parts[1]
  ELSE parts[1] \o sep \o join(sep, Tail(parts))

\* s.split(sep), sep a single character
RECURSIVE split(_, _)
split(s, sep) ==
  IF \A i \in 1..Len(s) : s[i] # sep THEN <<s>>
  ELSE LET first == CHOOSE i \in 1..Len(s) :
                      s[i] = sep /\ \A j \in 1..(i - 1) : s[j] # sep
       IN  <<SubSeq(s, 1, first - 1)>> \o split(SubSeq(s, first + 1, Len(s)), sep)

\* variant of simulate_patient: the first threshold compared with <=
simulate_patient_inclusive(p, r, r1, r2, r3) ==
  IF RLeq(r, p.p_all_three) THEN Chars("hypertension_diabetes_cardio")
  ELSE IF RLess(r, RAdd(p.p_all_three, p.p_hyp_dia)) THEN Chars("hypertension_diabetes")
  ELSE IF RLess(r, RAdd(RAdd(p.p_all_three, p.p_hyp_dia), p.p_hyp_car))
    THEN Chars("hypertension_cardio")
  ELSE IF RLess(r, RAdd(RAdd(RAdd(p.p_all_three, p.p_hyp_dia), p.p_hyp_car), p.p_dia_car))
    THEN Chars("diabetes_cardio")
  ELSE LET flags == (IF RLess(r1, p.p_hyp) THEN <<Chars("hypertension")>> ELSE <<>>)
                 \o (IF RLess(r2, p.p_dia) THEN <<Chars("diabetes")>> ELSE <<>>)
                 \o (IF RLess(r3, p.p_car) THEN <<Chars("cardio")>> ELSE <<>>)
       IN  IF flags = <<>> THEN Chars("none")
           ELSE join(Chars("_"), sorted(flags))

\* simulate_patient(), r and r1..r3 the values of its np.random.rand() calls
simulate_patient(p, r, r1, r2, r3) ==
  IF RLess(r, p.p_all_three) THEN Chars("hypertension_diabetes_cardio")
  ELSE IF RLess(r, RAdd(p.p_all_three, p.p_hyp_dia)) THEN Chars("hypertension_diabetes")
  ELSE IF RLess(r, RAdd(RAdd(p.p_all_three, p.p_hyp_dia), p.p_hyp_car))
    THEN Chars("hypertension_cardio")
  ELSE IF RLess(r, RAdd(RAdd(RAdd(p.p_all_three, p.p_hyp_dia), p.p_hyp_car), p.p_dia_car))
    THEN Chars("diabetes_cardio")
  ELSE LET flags == (IF RLess(r1, p.p_hyp) THEN <<Chars("hypertension")>> ELSE <<>>)
                 \o (IF RLess(r2, p.p_dia) THEN <<Chars("diabetes")>> ELSE <<>>)
                 \o (IF RLess(r3, p.p_car) THEN <<Chars("cardio")>> ELSE <<>>)
       IN  IF flags = <<>> THEN Chars("none")
           ELSE join(Chars("_"), sorted(flags))

\* Counter(clusters)
Counter(cl) ==
  [k \in {cl[i] : i \in 1..Len(cl)} |->
     Cardinality({i \in 1..Len(cl) : cl[i] = k})]

estimate_cost(cluster) ==
  IF cluster = Chars("none") THEN 0
  ELSE LET keys == split(cluster, Chars("_")[1])
           RECURSIVE total(_)
           total(i) == IF i > Len(keys) THEN 0
                       ELSE (IF keys[i] \in DOMAIN costs THEN costs[keys[i]] ELSE 0)
                            + total(i + 1)
       IN  total(1)

RECURSIVE SumOver(_, _)
SumOver(f, S) ==
  IF S = {} THEN 0
  ELSE LET k == CHOOSE x \in S : TRUE IN f[k] + SumOver(f, S \ {k})

\* the dictionary written to monte_carlo_results.json
Analysis(cl, n) ==
  LET counts == Counter(cl)
      cost_by_cluster == [k \in DOMAIN counts |-> estimate_cost(k)]
  IN  [population |-> n,
       joint_prevalence |-> [k \in DOMAIN counts |-> Norm(counts[k], n)],
       average_costs |-> [k \in DOMAIN counts |-> estimate_cost(k)],
       total_cost |-> SumOver([k \in DOMAIN counts |-> counts[k] * cost_by_cluster[k]],
                              DOMAIN counts)]

NoOutput == [population |-> 0, joint_prevalence |-> <<>>, average_costs |-> <<>>,
             total_cost |-> 0]

Probabilities(p) ==
  [p_hyp |-> FromPct(p[1]), p_dia |-> FromPct(p[2]), p_car |-> FromPct(p[3]),
   p_hyp_dia |-> FromPct(p[4]), p_hyp_car |-> FromPct(p[5]),
   p_dia_car |-> FromPct(p[6]), p_all_three |-> FromPct(p[7])]

SimStart ==
  /\ s_pc = "simulate"
  /\ n_patients \in 0..MaxPatients
  /\ probs \in {Probabilities(p) : p \in ProbPcts}
  /\ clusters = <<>>
  /\ output = NoOutput

\* one element of  [simulate_patient() for _ in range(n_patients)]
SimulatePatient ==
  /\ s_pc = "simulate"
  /\ Len(clusters) < n_patients
  /\ \E r, r1, r2, r3 \in {FromPct(x) : x \in RandPcts} :
       clusters' = Append(clusters, simulate_patient(probs, r, r1, r2, r3))
  /\ UNCHANGED <<s_pc, n_patients, probs, output, appVars>>

\* counts, cost analysis and output
AnalyseAndSave ==
  /\ s_pc = "simulate"
  /\ Len(clusters) = n_patients
  /\ output' = Analysis(clusters, n_patients)
  /\ s_pc' = "done"
  /\ UNCHANGED <<n_patients, probs, clusters, appVars>>

AppIdle ==
  /\ pc = "idle"
  /\ population_size = 0
  /\ osa_prevalence = Zero
  /\ current_diagnosis_rate = Zero
  /\ target_diagnosis_rate = Zero
  /\ treatment_adherence = Zero
  /\ cost_diagnosis = 0
  /\ cost_treatment = 0
  /\ discount_rate = Zero
  /\ data_source = "Manual Entry"
  /\ uploaded_file = NoFile
  /\ comorbidity_prevalence = Undefined
  /\ joint_prevalence = Undefined
  /\ untreated_osa = Zero
  /\ improved_treated_osa = Zero
  /\ year = 0
  /\ total_savings = NoMoney
  /\ annual_data = <<>>
  /\ results_df = <<>>

SamplerInit == SimStart /\ AppIdle

SamplerNext ==
  \/ SimulatePatient
  \/ AnalyseAndSave

SamplerSpec == SamplerInit /\ [][SamplerNext]_vars

SimIdle ==
  /\ s_pc = "idle"
  /\ n_patients = 0
  /\ probs = <<>>
  /\ clusters = <<>>
  /\ output = NoOutput

Init == AppStart /\ SimIdle

Next ==
  \/ ManualEntry
  \/ LoadMonteCarloJSON
  \/ StopWithoutUpload
  \/ BeginCalculateSavings
  \/ YearIteration
  \/ ReturnResults

Spec == Init /\ [][Next]_vars

-----------------------------------------------------------------------------
(* Properties of calculate_savings                                         *)

Computing == pc \in {"loop", "done"}

Rows == 1..Len(annual_data)

\* every fraction of the two dictionaries is a number >= 0
NonNegativeProfiles ==
  /\ \A c \in DOMAIN comorbidity_prevalence :
       IsNumber(comorbidity_prevalence[c]) /\ RLeq(Zero, comorbidity_prevalence[c].val)
  /\ \A k \in DOMAIN joint_prevalence :
       IsNumber(joint_prevalence[k]) /\ RLeq(Zero, joint_prevalence[k].val)

\* every fractional input lies in [0, 1]; population and costs are positive
NormalInputs ==
  /\ NonNegativeProfiles
  /\ \A c \in DOMAIN comorbidity_prevalence : RLeq(comorbidity_prevalence[c].val, One)
  /\ \A k \in DOMAIN joint_prevalence : RLeq(joint_prevalence[k].val, One)
  /\ \A f \in {osa_prevalence, current_diagnosis_rate, target_diagnosis_rate,
               treatment_adherence, discount_rate} : RLeq(Zero, f) /\ RLeq(f, One)
  /\ population_size > 0 /\ cost_diagnosis > 0 /\ cost_treatment > 0

\* C1: the running total equals the sum of the Net Savings of the records
\* appended so far, and the returned total is the sum over the 20 rows of
\* the returned series.
C1_TotalIsSumOfNetSavings ==
  /\ Computing =>
       total_savings = MSum([i \in Rows |-> annual_data[i].NetSavings])
  /\ pc = "done" =>
       /\ Len(results_df) = NumYears
       /\ total_savings = MSum([i \in 1..NumYears |-> results_df[i].NetSavings])

C1_Witness ==
  /\ pc = "done"
  /\ Len(results_df) = NumYears
  /\ \A i \in 1..NumYears : results_df[i].NetSavings # NoMoney
  /\ results_df[1].TreatmentCost # NoMoney

\* C2: with target_diagnosis_rate = current_diagnosis_rate, newly_treated is
\* 0 and the Cost Avoided of every year is exactly 0.
C2_NoNewDiagnosesNoCostAvoided ==
  (Computing /\ target_diagnosis_rate = current_diagnosis_rate) =>
    /\ improved_treated_osa = Zero
    /\ \A i \in Rows : annual_data[i].CostAvoided = NoMoney

C2_Witness ==
  /\ pc = "done"
  /\ target_diagnosis_rate = current_diagnosis_rate
  /\ treatment_adherence # Zero
  /\ Len(results_df) = NumYears
  /\ \E c \in DOMAIN comorbidity_prevalence : comorbidity_prevalence[c].val # Zero
  /\ \E k \in DOMAIN joint_prevalence : joint_prevalence[k].val # Zero

\* the Cost Avoided of year yr in the run that differs only in adherence
CostAvoidedWithAdherence(adh, yr) ==
  yearly_savings(comorbidity_prevalence, joint_prevalence,
                 ImprovedTreatedOsa(population_size, osa_prevalence,
                                    current_diagnosis_rate, target_diagnosis_rate, adh),
                 yr, discount_rate)

\* C3 as stated: of two runs that differ only in adherence, the one with the
\* larger adherence has a Cost Avoided at least as large in every year.
C3_MonotoneInAdherence_Original ==
  Computing =>
    \A a \in {FromPct(p) : p \in AdherencePcts} :
      RLeq(treatment_adherence, a) =>
        \A i \in Rows : MLeq(annual_data[i].CostAvoided, CostAvoidedWithAdherence(a, i))

\* C3 amended: the same, provided target_diagnosis_rate >= current_diagnosis_rate
\* and no prevalence or joint fraction is negative.
C3_MonotoneInAdherence ==
  (Computing /\ RLeq(current_diagnosis_rate, target_diagnosis_rate)
             /\ NonNegativeProfiles) =>
    \A a \in {FromPct(p) : p \in AdherencePcts} :
      RLeq(treatment_adherence, a) =>
        \A i \in Rows : MLeq(annual_data[i].CostAvoided, CostAvoidedWithAdherence(a, i))

C3_Witness ==
  /\ pc = "done"
  /\ RLess(current_diagnosis_rate, target_diagnosis_rate)
  /\ NonNegativeProfiles
  /\ \E a \in {FromPct(p) : p \in AdherencePcts} :
       /\ RLess(treatment_adherence, a)
       /\ \A i \in 1..NumYears :
            /\ results_df[i].CostAvoided # NoMoney
            /\ results_df[i].CostAvoided # CostAvoidedWithAdherence(a, i)
            /\ MLeq(results_df[i].CostAvoided, CostAvoidedWithAdherence(a, i))

\* C4 as stated: with normal inputs Cost Avoided, Treatment Cost and Net
\* Savings of every record and the total NPV are non-negative.
C4_NonNegativeMoney_Original ==
  (Computing /\ NormalInputs) =>
    /\ \A i \in Rows :
         /\ MNonNeg(annual_data[i].CostAvoided)
         /\ MNonNeg(annual_data[i].TreatmentCost)
         /\ MNonNeg(annual_data[i].NetSavings)
    /\ pc = "done" => ~MNegative(total_savings)

\* C4 amended: with normal inputs and target_diagnosis_rate >=
\* current_diagnosis_rate, Cost Avoided and Treatment Cost of every record
\* are non-negative (Net Savings and the total NPV can be negative).
C4_NonNegativeMoney ==
  (Computing /\ NormalInputs /\ RLeq(current_diagnosis_rate, target_diagnosis_rate)) =>
    \A i \in Rows :
      /\ MNonNeg(annual_data[i].CostAvoided)
      /\ MNonNeg(annual_data[i].TreatmentCost)

C4_Witness ==
  /\ pc = "done"
  /\ NormalInputs
  /\ RLess(current_diagnosis_rate, target_diagnosis_rate)
  /\ \A i \in 1..NumYears :
       /\ results_df[i].CostAvoided # NoMoney /\ MNonNeg(results_df[i].CostAvoided)
       /\ results_df[i].TreatmentCost # NoMoney /\ MNonNeg(results_df[i].TreatmentCost)
  /\ MNegative(results_df[1].NetSavings)

\* newly_treated, from the inputs
newly_treated ==
  RMul(RMul(RMul(FromInt(population_size), osa_prevalence),
            RSub(target_diagnosis_rate, current_diagnosis_rate)),
       treatment_adherence)

\* C5: the undiscounted treatment cost is newly_treated * (annual treatment
\* cost + diagnosis cost) in year 1 and newly_treated * annual treatment cost
\* in years 2..20; the recorded Treatment Cost of year t is that value
\* divided by (1 + rate)^t.
C5_DiagnosisCostInYearOneOnly ==
  Computing =>
    \A t \in Rows :
      LET undiscounted ==
            IF t = 1
            THEN RMul(newly_treated, FromInt(cost_treatment + cost_diagnosis))
            ELSE RMul(newly_treated, FromInt(cost_treatment))
      IN  /\ annual_data[t].Year = t
          /\ annual_data[t].TreatmentCost = discounted_value(undiscounted, t, discount_rate)

C5_Witness ==
  /\ pc = "done"
  /\ Len(results_df) = NumYears
  /\ newly_treated # Zero
  /\ discount_rate # Zero
  /\ DOMAIN results_df[1].TreatmentCost = {1}
  /\ DOMAIN results_df[NumYears].TreatmentCost = {NumYears}
  /\ results_df[1].TreatmentCost[1] =
       RAdd(results_df[2].TreatmentCost[2], RMul(newly_treated, FromInt(cost_diagnosis)))

\* an uploaded JSON object whose joint_prevalence is a mapping or is missing
ArtifactWithKeys ==
  /\ data_source = "Load Monte Carlo JSON"
  /\ uploaded_file.kind = "object"
  /\ uploaded_file.jpkind \in {"object", "missing"}

\* the value the claim gives to an artifact key: 0 unless it is a number
ZeroUnlessNumber(k) ==
  IF k \in DOMAIN uploaded_file.jp /\ IsNumber(uploaded_file.jp[k])
  THEN uploaded_file.jp[k] ELSE Num(Zero)

\* the two dictionaries the claim describes
DefaultedProfile ==
     "Hypertension" :> ZeroUnlessNumber("hypertension")
  @@ "Diabetes" :> ZeroUnlessNumber("diabetes")
  @@ "Cardiovascular Event" :> ZeroUnlessNumber("cardio")
  @@ "Depression" :> Num(FromPct(25))

DefaultedJoint ==
     "Hypertension + Diabetes" :> ZeroUnlessNumber("hypertension_diabetes")
  @@ "Hypertension + Cardio" :> ZeroUnlessNumber("hypertension_cardio")
  @@ "Diabetes + Cardio" :> ZeroUnlessNumber("diabetes_cardio")
  @@ "All Three" :> ZeroUnlessNumber("hypertension_diabetes_cardio")

\* C6: on the Monte Carlo JSON path every missing or malformed key of the
\* artifact is taken as 0, Depression is 0.25, and the run does not fail
\* but reaches its end with the 20-row series computed from those values.
C6_MalformedKeysDefaultToZero ==
  ArtifactWithKeys =>
    /\ pc # "crashed"
    /\ pc = "done" =>
         /\ Len(results_df) = NumYears
         /\ \A i \in 1..NumYears :
              results_df[i] = AnnualRecord(DefaultedProfile, DefaultedJoint,
                                           improved_treated_osa, i, cost_treatment,
                                           cost_diagnosis, discount_rate)

\* C7: with the Monte Carlo JSON source and no uploaded artifact the run
\* stops before calculate_savings: no record, no total and no series exist;
\* whenever calculate_savings is reached both dictionaries are defined.
C7_NoArtifactNoComputation ==
  /\ (data_source = "Load Monte Carlo JSON" /\ uploaded_file.kind = "none") =>
       /\ pc \in {"source", "stopped"}
       /\ annual_data = <<>>
       /\ results_df = <<>>
       /\ total_savings = NoMoney
  /\ pc \in {"ready", "loop", "done"} =>
       /\ Defined(comorbidity_prevalence)
       /\ Defined(joint_prevalence)

C7_Witness ==
  /\ pc = "stopped"
  /\ data_source = "Load Monte Carlo JSON"
  /\ uploaded_file.kind = "none"

\* the regression fixture of the specification
Fixture ==
  /\ population_size = 100000
  /\ osa_prevalence = FromPct(25)
  /\ current_diagnosis_rate = FromPct(20)
  /\ target_diagnosis_rate = FromPct(50)
  /\ treatment_adherence = FromPct(60)
  /\ cost_diagnosis = 1000
  /\ cost_treatment = 1500
  /\ discount_rate = FromPct(3)
  /\ comorbidity_prevalence = ManualProfile(<<30, 0, 0, 0>>)
  /\ joint_prevalence = ManualJoint(<<0, 0, 0, 0>>)

\* 100000 * 0.25 * 0.30 * 0.60 * 0.30 * 0.40
FixtureProduct ==
  RMul(RMul(RMul(RMul(RMul(FromInt(100000), FromPct(25)), FromPct(30)), FromPct(60)),
            FromPct(30)), FromPct(40))

\* C9 as stated: for the fixture the year-1 Cost Avoided is
\* 100000*0.25*0.30*0.60 * 0.30 * 0.40 / 1.03.
C9_FixtureYearOne_Original ==
  (Fixture /\ Computing /\ Len(annual_data) >= 1) =>
    annual_data[1].CostAvoided = (1 :> FixtureProduct)

\* C9 amended: for the fixture the year-1 Cost Avoided is
\* 100000*0.25*0.30*0.60 * 0.30 * 0.40 * 2000 / 1.03, about 1,048,543.69.
C9_FixtureYearOne ==
  (Fixture /\ Computing /\ Len(annual_data) >= 1) =>
    /\ annual_data[1].CostAvoided = (1 :> RMul(FixtureProduct, FromInt(2000)))
    /\ LET c == annual_data[1].CostAvoided[1]
           n == c[1] * 100
           d == c[2] * 103
       IN  n \div d = 1048543 /\ ((n % d) * 1000) \div d = 689

C9_Witness ==
  /\ Fixture
  /\ pc = "done"
  /\ results_df[1].CostAvoided = (1 :> <<1080000, 1>>)

\* the record of year yr in the run that differs only in the "All Three" fraction
RecordWithAllThree(v, yr) ==
  AnnualRecord(comorbidity_prevalence,
               [joint_prevalence EXCEPT !["All Three"] = Num(v)],
               improved_treated_osa, yr, cost_treatment, cost_diagnosis, discount_rate)

\* C10: a run that differs only in the "All Three" fraction returns the same
\* 20-row series and the same total NPV.
C10_AllThreeHasNoEffect ==
  (Computing /\ IsNumber(joint_prevalence["All Three"])) =>
    \A v \in {FromPct(p) : p \in AllThreePcts} :
      /\ \A i \in Rows : annual_data[i] = RecordWithAllThree(v, i)
      /\ total_savings = MSum([i \in Rows |-> RecordWithAllThree(v, i).NetSavings])

C10_Witness ==
  /\ pc = "done"
  /\ Len(results_df) = NumYears
  /\ improved_treated_osa # Zero
  /\ joint_prevalence["All Three"].val # Zero
  /\ \E v \in {FromPct(p) : p \in AllThreePcts} : v # joint_prevalence["All Three"].val
  /\ \A i \in 1..NumYears : results_df[i].CostAvoided # NoMoney

-----------------------------------------------------------------------------
(* Properties of the Sampler                                               *)

AllProbabilitiesZero == \A f \in DOMAIN probs : probs[f] = Zero

\* C8: with N > 0 individuals and all probabilities 0 every individual is in
\* the "none" cluster, the output has the single cluster "none" with
\* prevalence 1.0, and total_cost is 0.
C8_AllZeroGivesNone ==
  (s_pc # "idle" /\ n_patients > 0 /\ AllProbabilitiesZero) =>
    /\ \A i \in 1..Len(clusters) : clusters[i] = Chars("none")
    /\ s_pc = "done" =>
         /\ output.population = n_patients
         /\ DOMAIN output.joint_prevalence = {Chars("none")}
         /\ output.joint_prevalence[Chars("none")] = One
         /\ output.total_cost = 0

C8_Witness ==
  /\ s_pc = "done"
  /\ n_patients > 1
  /\ AllProbabilitiesZero
  /\ Len(clusters) = n_patients
  /\ output.joint_prevalence[Chars("none")] = One

====
